---- MODULE Spec2Model ----
(***************************************************************************)
(* Model of the price-comparison application:                              *)
(*   - the search-history cache (hook useSearchHistory, unnamed/part_011), *)
(*     one hook instance over the browser's localStorage;                  *)
(*   - the mock price generator and the comparison orchestrator            *)
(*     (generateMockPrices / searchPrices, src/lib/actions.ts and the      *)
(*     two-store revision unnamed/part_005);                               *)
(*   - the image and CSV upload actions (detectProductFromImage,           *)
(*     parseCsv / processCsv, src/lib/actions.ts);                         *)
(*   - the compare page (app/(app)/compare/page.tsx) and its client        *)
(*     component (components/compare/CompareClient.tsx).                   *)
(*                                                                         *)
(* Strings that are only compared for equality (product names of the      *)
(* history, ids, ISO timestamps) are modelled by integers; the ISO time    *)
(* plus Math.random() id of an entry is the value of a counter that every  *)
(* addHistoryEntry call advances.                                          *)
(***************************************************************************)
EXTENDS Integers, Sequences, FiniteSets, TLC

\* ---------------------------------------------------------------- bounds
\* number of distinct product names the user may search for
NumProducts == 11
\* number of addHistoryEntry calls made in the modelled session
MaxAdds == 2
\* number of generator calls logged in one server process
MaxCalls == 3

\* ------------------------------------------------------ program constants
MAX_HISTORY_ITEMS == 10

Products == 1..NumProducts
\* lengths of the list an earlier session may have left in storage
EarlierLengths == {0, 2, MAX_HISTORY_ITEMS - 1, MAX_HISTORY_ITEMS}
\* the (bestPrice, store) pairs a comparison may hand to the history
Quotes == { [bestPrice |-> 49999, store |-> "Amazon"],
            [bestPrice |-> 51250, store |-> "eBay"] }

VARIABLES
    localStorage,   \* the value stored under HISTORY_KEY
    history,        \* React state `history` of the hook instance (a JS value)
    isLoaded,       \* React state `isLoaded`
    phase,          \* "mounted": constructed, load effect pending;
                    \* "ready": load effect has run; "crashed": an exception escaped
    clock,          \* source of ids and timestamps (new Date(), Math.random())
    numAdds,        \* addHistoryEntry calls made so far
    lastCall,       \* the latest addHistoryEntry call of this instance (history variable)
    prevCall,       \* the call before it
    revision,       \* which revision of lib/actions is deployed
    sinFrac,        \* the values of pseudoRandom at the seeds of a call
    numImages,      \* PlaceHolderImages.length
    search,         \* the searchPrices invocation: status, results, bestPrice, summary
    generated,      \* the generator's calls so far: name given, quotes returned
    detect,         \* the detectProductFromImage invocation and the state it was given
    csv,            \* the processCsv invocation: file, searchPrices calls, returned state
    compare,        \* the compare page: URL, server render in flight, CompareClient state
    protected,      \* ProtectedApp: what useUser and usePathname give, what it rendered
    tabs            \* two more instances of the history hook over the same key

histVars == <<localStorage, history, isLoaded, phase, clock, numAdds, lastCall, prevCall>>
searchVars == <<revision, sinFrac, numImages, search, generated>>
detectVars == <<detect>>
csvVars == <<csv>>
compareVars == <<compare>>
protectedVars == <<protected>>
tabVars == <<tabs>>
vars == <<histVars, searchVars, detectVars, csvVars, compareVars, protectedVars, tabVars>>

\* --------------------------------------------------------------- helpers
Min(S) == CHOOSE x \in S : \A y \in S : x <= y

\* JS values held by the `history` state
JsArray(items) == [t |-> "array", items |-> items]
JsNull == [t |-> "null"]
JsObject == [t |-> "object"]
JsNumber == [t |-> "number"]

IsArray(v) == v.t = "array"

\* ------------------------------------------------------------ JSON codec
\* localStorage.getItem gives null for a missing key, else the stored string.
NoItem == [kind |-> "absent"]
EmptyString == [kind |-> "text", syntax |-> "empty"]
InvalidJson == [kind |-> "text", syntax |-> "invalid"]
JsonText(doc) == [kind |-> "text", syntax |-> "json", doc |-> doc]

\* variant: the store is written as an empty string
StringifyEntry_NoStore(e) ==
    << [key |-> "productName", value |-> e.productName],
       [key |-> "bestPrice",   value |-> e.bestPrice],
       [key |-> "store",       value |-> ""],
       [key |-> "id",          value |-> e.id],
       [key |-> "timestamp",   value |-> e.timestamp] >>

\* JSON.stringify of one entry: its own properties in insertion order
\* ({...newEntry, id, timestamp}).
StringifyEntry(e) ==
    << [key |-> "productName", value |-> e.productName],
       [key |-> "bestPrice",   value |-> e.bestPrice],
       [key |-> "store",       value |-> e.store],
       [key |-> "id",          value |-> e.id],
       [key |-> "timestamp",   value |-> e.timestamp] >>

\* JSON.stringify(updatedHistory)
JSON_stringify(list) ==
    JsonText([t |-> "array",
              elems |-> [i \in 1..Len(list) |-> StringifyEntry(list[i])]])

Member(members, k) ==
    (CHOOSE m \in {members[i] : i \in 1..Len(members)} : m.key = k).value

ParseEntry(members) ==
    [id          |-> Member(members, "id"),
     productName |-> Member(members, "productName"),
     bestPrice   |-> Member(members, "bestPrice"),
     store       |-> Member(members, "store"),
     timestamp   |-> Member(members, "timestamp")]

\* JSON.parse of a syntactically valid text
JSON_parse(text) ==
    IF text.doc.t = "array"
    THEN JsArray([i \in 1..Len(text.doc.elems) |-> ParseEntry(text.doc.elems[i])])
    ELSE text.doc

\* JSON.parse throws a SyntaxError on these
ParseThrows(text) == text.syntax # "json"

\* ------------------------------------------------------- the history hook
\* value of `history` after the load effect, lines 13-23
LoadedHistory(stored) ==
    IF stored.kind = "absent" \/ stored.syntax = "empty"
    THEN JsArray(<<>>)                      \* if (storedHistory) is falsy
    ELSE IF ParseThrows(stored)
         THEN JsArray(<<>>)                 \* caught and logged
         ELSE JSON_parse(stored)            \* setHistory(JSON.parse(...))

\* variant: the index of the last match (findLastIndex)
FindIndex_Last(self, name) ==
    LET S == {j \in 1..Len(self) : self[j].productName = name}
    IN  IF S = {} THEN 0 ELSE CHOOSE x \in S : \A y \in S : y <= x

\* self.findIndex(t => t.productName === name), 1-based, 0 when not found
FindIndex(self, name) ==
    LET S == {j \in 1..Len(self) : self[j].productName = name}
    IN  IF S = {} THEN 0 ELSE Min(S)

\* variant: nothing is filtered out
FilterFirstOccurrence_None(self) == self

\* .filter((item, index, self) => index === self.findIndex(...))
FilterFirstOccurrence(self) ==
    LET K == {i \in 1..Len(self) : i = FindIndex(self, self[i].productName)}
        nth(k) == CHOOSE i \in K : Cardinality({j \in K : j < i}) = k - 1
    IN  [k \in 1..Cardinality(K) |-> self[nth(k)]]

\* variant: the last n elements (slice(-n))
Slice_Tail(s, n) == SubSeq(s, IF Len(s) < n THEN 1 ELSE Len(s) - n + 1, Len(s))

\* .slice(0, n)
Slice(s, n) == SubSeq(s, 1, IF Len(s) < n THEN Len(s) ELSE n)

\* variant: the entries that are kept get the new entry's timestamp
UpdatedHistory_Restamped(prevHistory, entryWithMeta) ==
    LET kept == Slice(FilterFirstOccurrence(<<entryWithMeta>> \o prevHistory),
                      MAX_HISTORY_ITEMS)
    IN  [i \in 1..Len(kept) |-> [kept[i] EXCEPT !.timestamp = entryWithMeta.timestamp]]

\* variant: no cap on the length
UpdatedHistory_NoCap(prevHistory, entryWithMeta) ==
    FilterFirstOccurrence(<<entryWithMeta>> \o prevHistory)

\* variant: the new entry is appended
UpdatedHistory_Append(prevHistory, entryWithMeta) ==
    Slice(FilterFirstOccurrence(prevHistory \o <<entryWithMeta>>), MAX_HISTORY_ITEMS)

\* the updater of addHistoryEntry, lines 33-39
UpdatedHistory(prevHistory, entryWithMeta) ==
    Slice(FilterFirstOccurrence(<<entryWithMeta>> \o prevHistory), MAX_HISTORY_ITEMS)

NoCall == [made |-> FALSE]

\* The list an earlier session left in storage after adding products 1..k
\* one after the other.
EarlierSession(k) ==
    [i \in 1..k |->
        [id |-> k + 1 - i, productName |-> k + 1 - i, bestPrice |-> 49999,
         store |-> "Amazon", timestamp |-> k + 1 - i]]

\* useState([]) / useState(false), lines 10-11
HookInit ==
    /\ history = JsArray(<<>>)
    /\ isLoaded = FALSE
    /\ phase = "mounted"
    /\ numAdds = 0
    /\ lastCall = NoCall
    /\ prevCall = NoCall

HistInit ==
    /\ \E k \in EarlierLengths :
          /\ localStorage = IF k = 0 THEN NoItem ELSE JSON_stringify(EarlierSession(k))
          /\ clock = k
    /\ HookInit

\* variant: setIsLoaded(true) only inside the try block, after the parse
LoadEffect_OnSuccessOnly ==
    /\ phase = "mounted"
    /\ history' = LoadedHistory(localStorage)
    /\ isLoaded' = ~(localStorage.kind # "absent" /\ localStorage.syntax # "empty"
                       /\ ParseThrows(localStorage))
    /\ phase' = "ready"
    /\ UNCHANGED <<localStorage, clock, numAdds, lastCall, prevCall>>

\* the mount effect, lines 13-23
LoadEffect ==
    /\ phase = "mounted"
    /\ history' = LoadedHistory(localStorage)
    /\ isLoaded' = TRUE
    /\ phase' = "ready"
    /\ UNCHANGED <<localStorage, clock, numAdds, lastCall, prevCall>>

\* variant: a failed write leaves the key without a value
StoredAfter_Cleared(stored, updatedHistory, writeOk) ==
    IF writeOk THEN JSON_stringify(updatedHistory) ELSE NoItem

\* lines 41-45: what the key holds after the try/catch around setItem
StoredAfter(stored, updatedHistory, writeOk) ==
    IF writeOk THEN JSON_stringify(updatedHistory) ELSE stored

\* addHistoryEntry, lines 25-48.  writeOk = FALSE: localStorage.setItem throws
\* (quota exceeded, storage disabled), which the code catches and logs.
AddHistoryEntry(productName, quote, writeOk) ==
    /\ phase = "ready"
    /\ numAdds < MaxAdds
    /\ clock' = clock + 1
    /\ numAdds' = numAdds + 1
    /\ isLoaded' = isLoaded
    /\ prevCall' = lastCall
    /\ IF IsArray(history)
       THEN LET entryWithMeta == [productName |-> productName,
                                  bestPrice |-> quote.bestPrice,
                                  store |-> quote.store,
                                  id |-> clock + 1,
                                  timestamp |-> clock + 1]
                updatedHistory == UpdatedHistory(history.items, entryWithMeta)
            IN  /\ history' = JsArray(updatedHistory)
                /\ localStorage' = StoredAfter(localStorage, updatedHistory, writeOk)
                /\ phase' = phase
                /\ lastCall' = [made |-> TRUE, productName |-> productName,
                                bestPrice |-> quote.bestPrice, store |-> quote.store,
                                before |-> history.items, saved |-> writeOk,
                                threw |-> FALSE]
       ELSE \* [entryWithMeta, ...prevHistory] throws TypeError: not iterable
            /\ phase' = "crashed"
            /\ lastCall' = [made |-> TRUE, productName |-> productName,
                            bestPrice |-> quote.bestPrice, store |-> quote.store,
                            before |-> <<>>, saved |-> FALSE, threw |-> TRUE]
            /\ UNCHANGED <<history, localStorage>>

\* The component using the hook is unmounted and mounted again (navigation,
\* reload): a fresh hook instance over the same storage key.
Remount ==
    /\ phase = "ready"
    /\ history' = JsArray(<<>>)
    /\ isLoaded' = FALSE
    /\ phase' = "mounted"
    /\ lastCall' = NoCall
    /\ prevCall' = NoCall
    /\ UNCHANGED <<localStorage, clock, numAdds>>

\* A component that renders the list (HistoryClient lines 56-81, dashboard
\* lines 78-87): history.length / history.map / history[0] on a value that is
\* not an array throws a TypeError during render.
RenderHistory ==
    /\ phase = "ready"
    /\ ~IsArray(history)
    /\ phase' = "crashed"
    /\ UNCHANGED <<localStorage, history, isLoaded, clock, numAdds, lastCall, prevCall>>

\* ------------------------------------------------------------------------
\* Price generator and comparison orchestrator.
\* A string is the sequence of its UTF-16 code units.  Prices are held in
\* hundredths of a rupee: parseFloat(x.toFixed(2)) is an integer number of
\* hundredths.  The title and url fields of a quote repeat the product name
\* and are left out.

kw_iphone == <<105, 112, 104, 111, 110, 101>>
kw_galaxy == <<103, 97, 108, 97, 120, 121>>
kw_pixel == <<112, 105, 120, 101, 108>>
kw_smartphone == <<115, 109, 97, 114, 116, 112, 104, 111, 110, 101>>
kw_macbook == <<109, 97, 99, 98, 111, 111, 107>>
kw_laptop == <<108, 97, 112, 116, 111, 112>>
kw_notebook == <<110, 111, 116, 101, 98, 111, 111, 107>>
kw_headphone == <<104, 101, 97, 100, 112, 104, 111, 110, 101>>
kw_earbuds == <<101, 97, 114, 98, 117, 100, 115>>
kw_airpods == <<97, 105, 114, 112, 111, 100, 115>>
kw_watch == <<119, 97, 116, 99, 104>>
kw_smartwatch == <<115, 109, 97, 114, 116, 119, 97, 116, 99, 104>>
kw_camera == <<99, 97, 109, 101, 114, 97>>
kw_gaming_console == <<103, 97, 109, 105, 110, 103, 32, 99, 111, 110, 115, 111, 108, 101>>
kw_playstation == <<112, 108, 97, 121, 115, 116, 97, 116, 105, 111, 110>>
kw_xbox == <<120, 98, 111, 120>>

\* the product names a user types or the recognition returns
SearchNames ==
    { <<>>,                                                     \* ""
      <<105, 80, 104, 111, 110, 101, 32, 49, 53>>,              \* "iPhone 15"
      <<77, 97, 99, 66, 111, 111, 107, 32, 65, 105, 114>>,      \* "MacBook Air"
      <<65, 105, 114, 80, 111, 100, 115>>,                      \* "AirPods"
      <<83, 109, 97, 114, 116, 119, 97, 116, 99, 104>>,         \* "Smartwatch"
      <<67, 97, 109, 101, 114, 97>>,                            \* "Camera"
      <<88, 98, 111, 120>>,                                     \* "Xbox"
      <<84, 86>>,                                               \* "TV"
      <<84, 111, 97, 115, 116, 101, 114>>,                      \* "Toaster"
      <<83, 112, 101, 97, 107, 101, 114>> }                     \* "Speaker"

\* String.prototype.toLowerCase on the ASCII letters used here
toLowerCase(s) ==
    [i \in 1..Len(s) |-> IF s[i] >= 65 /\ s[i] <= 90 THEN s[i] + 32 ELSE s[i]]

\* String.prototype.includes
includes(s, kw) ==
    \E i \in 0..(Len(s) - Len(kw)) : SubSeq(s, i + 1, i + Len(kw)) = kw

\* The hash is a JS number that leaves the 32-bit range; it is held as
\* hi * 65536 + lo with 0 <= lo < 65536.
Big(hi, lo) == [hi |-> hi + (lo \div 65536), lo |-> lo % 65536]

\* acc << 5: ToInt32(acc) shifted left by 5 bits, as a signed 32-bit value
ShiftLeft5(acc) ==
    LET low27 == (acc.hi % 2048) * 65536 + acc.lo
    IN  (IF low27 >= 67108864 THEN low27 - 134217728 ELSE low27) * 32

\* one step of the reduce: char.charCodeAt(0) + ((acc << 5) - acc)
HashStep(acc, code) ==
    LET sh == ShiftLeft5(acc)
    IN  Big((sh \div 65536) - acc.hi, code + (sh % 65536) - acc.lo)

\* lowerCaseProduct.split('').reduce(..., 0), line 45
NameHash(lowerCaseProduct) ==
    LET acc[i \in 0..Len(lowerCaseProduct)] ==
            IF i = 0 THEN Big(0, 0)
            ELSE HashStep(acc[i - 1], lowerCaseProduct[i])
    IN  acc[Len(lowerCaseProduct)]

\* variant: the remainder is taken of -Math.abs(n)
AbsMod_Negated(n, m) ==
    LET neg == n.hi < 0
        H == IF neg THEN (IF n.lo = 0 THEN 0 - n.hi ELSE 0 - n.hi - 1) ELSE n.hi
        L == IF neg THEN (IF n.lo = 0 THEN 0 ELSE 65536 - n.lo) ELSE n.lo
    IN  0 - (((((((H % m) * 256) % m) * 256) % m) + L) % m)

\* variant: n % m without Math.abs, the remainder keeps the sign of n
AbsMod_Signed(n, m) ==
    LET neg == n.hi < 0
        H == IF neg THEN (IF n.lo = 0 THEN 0 - n.hi ELSE 0 - n.hi - 1) ELSE n.hi
        L == IF neg THEN (IF n.lo = 0 THEN 0 ELSE 65536 - n.lo) ELSE n.lo
        r == ((((((H % m) * 256) % m) * 256) % m) + L) % m
    IN  IF neg THEN 0 - r ELSE r

\* Math.abs(n) % m for 0 < m <= 80000
AbsMod(n, m) ==
    LET neg == n.hi < 0
        H == IF neg THEN (IF n.lo = 0 THEN 0 - n.hi ELSE 0 - n.hi - 1) ELSE n.hi
        L == IF neg THEN (IF n.lo = 0 THEN 0 ELSE 65536 - n.lo) ELSE n.lo
    IN  ((((((H % m) * 256) % m) * 256) % m) + L) % m

\* nameHash + index * 100, line 76
StoreSeed(nameHash, index) == Big(nameHash.hi, nameHash.lo + index * 100)

\* pseudoRandom(seed) = frac(sin(seed) * 10000), lines 48-51, in thousandths.
\* Math.sin has no counterpart here: its value at the seed of store slot k
\* (seed = nameHash + 100 k; the base price uses slot 0) is sinFrac[k], an
\* arbitrary element of [0, 1) that is fixed when the process starts.
Fractions == {0, 500, 999}

\* variant: the draw also depends on how many calls were made before
pseudoRandom_Stateful(seed, nameHash) ==
    LET k == CHOOSE j \in 0..4 : StoreSeed(nameHash, j) = seed
    IN  sinFrac[(k + Len(generated)) % 5]

pseudoRandom(seed, nameHash) ==
    LET k == CHOOSE j \in 0..4 : StoreSeed(nameHash, j) = seed
    IN  sinFrac[k]

\* keyword tiers, lines 56-71: base price in rupees
BasePrice(lowerCaseProduct, nameHash) ==
    LET r == pseudoRandom(nameHash, nameHash)
    IN  IF \/ includes(lowerCaseProduct, kw_iphone)
           \/ includes(lowerCaseProduct, kw_galaxy)
           \/ includes(lowerCaseProduct, kw_pixel)
           \/ includes(lowerCaseProduct, kw_smartphone)
        THEN 60000 + r * 60
        ELSE IF \/ includes(lowerCaseProduct, kw_macbook)
                \/ includes(lowerCaseProduct, kw_laptop)
                \/ includes(lowerCaseProduct, kw_notebook)
        THEN 50000 + r * 100
        ELSE IF \/ includes(lowerCaseProduct, kw_headphone)
                \/ includes(lowerCaseProduct, kw_earbuds)
                \/ includes(lowerCaseProduct, kw_airpods)
        THEN 2000 + r * 28
        ELSE IF \/ includes(lowerCaseProduct, kw_watch)
                \/ includes(lowerCaseProduct, kw_smartwatch)
        THEN 15000 + r * 35
        ELSE IF includes(lowerCaseProduct, kw_camera)
        THEN 30000 + r * 170
        ELSE IF \/ includes(lowerCaseProduct, kw_gaming_console)
                \/ includes(lowerCaseProduct, kw_playstation)
                \/ includes(lowerCaseProduct, kw_xbox)
        THEN 35000 + r * 20
        ELSE AbsMod(nameHash, 80000) + 10000

\* line 39
stores == <<"Amazon", "eBay", "Walmart", "Best Buy", "Target">>

\* the switch of lines 78-96, in units of 1/100000
StoreMultiplier(store, r) ==
    CASE store = "Amazon"   -> 95000 + r * 10
      [] store = "Walmart"  -> 92000 + r * 10
      [] store = "eBay"     -> 98000 + r * 15
      [] store = "Best Buy" -> 100000 + r * 10
      [] store = "Target"   -> 97000 + r * 12
      [] OTHER              -> 100000

\* parseFloat((basePrice * storeMultiplier).toFixed(2)), line 98, in hundredths
RoundedPrice(basePrice, mult) ==
    basePrice * (mult \div 1000) + ((basePrice * (mult % 1000) + 500) \div 1000)

\* variant: a quote whose price equals one already placed is dropped
RECURSIVE InsertByPrice_DropTies(_, _)
InsertByPrice_DropTies(sorted, q) ==
    IF sorted = <<>> THEN <<q>>
    ELSE IF sorted[Len(sorted)].price = q.price THEN sorted
    ELSE IF sorted[Len(sorted)].price < q.price THEN Append(sorted, q)
    ELSE Append(InsertByPrice_DropTies(SubSeq(sorted, 1, Len(sorted) - 1), q),
                sorted[Len(sorted)])

\* Array.prototype.sort((a, b) => a.price - b.price): a stable sort
RECURSIVE InsertByPrice(_, _)
InsertByPrice(sorted, q) ==
    IF sorted = <<>> THEN <<q>>
    ELSE IF sorted[Len(sorted)].price <= q.price THEN Append(sorted, q)
    ELSE Append(InsertByPrice(SubSeq(sorted, 1, Len(sorted) - 1), q),
                sorted[Len(sorted)])

RECURSIVE SortFrom(_, _, _)
SortFrom(sorted, s, i) ==
    IF i > Len(s) THEN sorted ELSE SortFrom(InsertByPrice(sorted, s[i]), s, i + 1)

\* variant: the results are returned in catalog order
SortByPrice_None(results) == results

SortByPrice(results) == SortFrom(<<>>, results, 1)

\* generateMockPrices of src/lib/actions.ts, lines 38-131
generateMockPrices(productName) ==
    LET lowerCaseProduct == toLowerCase(productName)
        nameHash == NameHash(lowerCaseProduct)
        basePrice == BasePrice(lowerCaseProduct, nameHash)
        results ==
            [n \in 1..Len(stores) |->
                LET storeSeed == StoreSeed(nameHash, n - 1)
                    storeMultiplier ==
                        StoreMultiplier(stores[n], pseudoRandom(storeSeed, nameHash))
                IN  [store |-> stores[n],
                     price |-> RoundedPrice(basePrice, storeMultiplier)]]
    IN  SortByPrice(results)

\* generateMockPrices of the two-store revision, part_005 lines 38-62;
\* u0, u1, u2 are the Math.random() draws, in thousandths
generateMockPricesTwoStore(u0, u1, u2) ==
    LET twoStores == <<"Amazon", "eBay">>
        basePrice == 50000 + u0 * 50
        draw == <<u1, u2>>
    IN  IF numImages = 0 THEN <<>>
        ELSE [n \in 1..2 |->
                [store |-> twoStores[n],
                 price |-> basePrice + (draw[n] - 500) * 10]]

\* variant: the comparison is reversed
RECURSIVE ReduceMin_Max(_, _, _)
ReduceMin_Max(best, results, i) ==
    IF i > Len(results) THEN best
    ELSE ReduceMin_Max(IF results[i].price > best.price THEN results[i] ELSE best,
                       results, i + 1)

\* variant: a later quote with an equal price replaces the best
RECURSIVE ReduceMin_LastWins(_, _, _)
ReduceMin_LastWins(best, results, i) ==
    IF i > Len(results) THEN best
    ELSE ReduceMin_LastWins(IF results[i].price <= best.price THEN results[i] ELSE best,
                            results, i + 1)

\* results.reduce((best, current) => current.price < best.price ? current : best, results[0])
RECURSIVE ReduceMin(_, _, _)
ReduceMin(best, results, i) ==
    IF i > Len(results) THEN best
    ELSE ReduceMin(IF results[i].price < best.price THEN results[i] ELSE best,
                   results, i + 1)

Null == [isNull |-> TRUE]

\* lines 169-171
BestPrice(results) ==
    IF Len(results) > 0 THEN ReduceMin(results[1], results, 1) ELSE Null

Idle == [status |-> "idle"]

\* variant: the summarizer is asked although there are no quotes
NoPricesResult_Summarized(productName) ==
    [status |-> "returned", productName |-> productName,
     results |-> <<>>, bestPrice |-> Null,
     summary |-> [kind |-> "ai"],
     generatorCalls |-> 1, summarizerCalls |-> 1]

\* the result of lines 141-148 (part_005 lines 71-78): no quotes
NoPricesResult(productName) ==
    [status |-> "returned", productName |-> productName,
     results |-> <<>>, bestPrice |-> Null,
     summary |-> [kind |-> "noPrices"],
     generatorCalls |-> 1, summarizerCalls |-> 0]

\* throw new Error('Product name is required.'), lines 135-137
RequiredError(productName) ==
    [status |-> "threw", productName |-> productName,
     error |-> "Product name is required.",
     generatorCalls |-> 0, summarizerCalls |-> 0]

\* an invocation suspended at await getPriceComparisonSummary(...)
Awaiting(productName, results) ==
    [status |-> "awaiting", productName |-> productName, results |-> results,
     generatorCalls |-> 1, summarizerCalls |-> 1]

\* searchPrices of src/lib/actions.ts up to its await, lines 134-155
SearchStarted(productName) ==
    IF productName = <<>>
    THEN RequiredError(productName)
    ELSE LET results == generateMockPrices(productName)
         IN  IF Len(results) = 0
             THEN NoPricesResult(productName)
             ELSE Awaiting(productName, results)

\* getPriceComparisonSummary resolved: lines 156 and 169-178
SearchResolved(s) ==
    [status |-> "returned", productName |-> s.productName,
     results |-> s.results,
     bestPrice |-> BestPrice(s.results),
     summary |-> [kind |-> "ai"],
     generatorCalls |-> s.generatorCalls, summarizerCalls |-> s.summarizerCalls]

\* variant: the catch block's reduce lets a later equal price win
DefaultSummary_LastWins(results) ==
    LET bestPrice == IF Len(results) > 0
                     THEN ReduceMin_LastWins(results[1], results, 1) ELSE Null
    IN  IF bestPrice # Null
        THEN [kind |-> "fallback", price |-> bestPrice.price, store |-> bestPrice.store]
        ELSE [kind |-> "default"]

\* the summary built in the catch block, lines 159-165, with its own reduce
DefaultSummary(results) ==
    LET bestPrice == IF Len(results) > 0
                     THEN ReduceMin(results[1], results, 1) ELSE Null
    IN  IF bestPrice # Null
        THEN [kind |-> "fallback", price |-> bestPrice.price, store |-> bestPrice.store]
        ELSE [kind |-> "default"]

\* variant: after a first rejection the summarizer is asked once more
SearchRejected_Retry(s) ==
    IF s.summarizerCalls < 2
    THEN [status |-> "awaiting", productName |-> s.productName, results |-> s.results,
          generatorCalls |-> s.generatorCalls,
          summarizerCalls |-> s.summarizerCalls + 1]
    ELSE [status |-> "returned", productName |-> s.productName,
          results |-> s.results,
          bestPrice |-> BestPrice(s.results),
          summary |-> DefaultSummary(s.results),
          generatorCalls |-> s.generatorCalls, summarizerCalls |-> s.summarizerCalls]

\* getPriceComparisonSummary rejected: lines 157-178 catch it
SearchRejected(s) ==
    [status |-> "returned", productName |-> s.productName,
     results |-> s.results,
     bestPrice |-> BestPrice(s.results),
     summary |-> DefaultSummary(s.results),
     generatorCalls |-> s.generatorCalls, summarizerCalls |-> s.summarizerCalls]

\* searchPrices of the two-store revision up to its await, part_005 lines 64-83
SearchStartedTwoStore(productName, u0, u1, u2) ==
    IF productName = <<>>
    THEN RequiredError(productName)
    ELSE LET results == generateMockPricesTwoStore(u0, u1, u2)
         IN  IF Len(results) = 0
             THEN NoPricesResult(productName)
             ELSE Awaiting(productName, results)

\* part_005 lines 85-92
SearchResolvedTwoStore(s) ==
    [status |-> "returned", productName |-> s.productName,
     results |-> s.results,
     bestPrice |-> ReduceMin(s.results[1], s.results, 1),
     summary |-> [kind |-> "ai"],
     generatorCalls |-> s.generatorCalls, summarizerCalls |-> s.summarizerCalls]

\* part_005 lines 80-83: no try around the await, the rejection propagates
SearchRejectedTwoStore(s) ==
    [status |-> "threw", productName |-> s.productName,
     error |-> "summary failed",
     generatorCalls |-> s.generatorCalls, summarizerCalls |-> s.summarizerCalls]

\* a call of searchPrices (src/lib/actions.ts)
SearchPrices(productName) ==
    /\ revision = "current"
    /\ search.status # "awaiting"
    /\ search' = SearchStarted(productName)
    /\ UNCHANGED <<revision, sinFrac, numImages, generated>>

SummaryResolves ==
    /\ revision = "current"
    /\ search.status = "awaiting"
    /\ search' = SearchResolved(search)
    /\ UNCHANGED <<revision, sinFrac, numImages, generated>>

SummaryRejects ==
    /\ revision = "current"
    /\ search.status = "awaiting"
    /\ search' = SearchRejected(search)
    /\ UNCHANGED <<revision, sinFrac, numImages, generated>>

\* a call of searchPrices (two-store revision)
SearchPricesTwoStore(productName, u0, u1, u2) ==
    /\ revision = "twoStore"
    /\ search.status # "awaiting"
    /\ search' = SearchStartedTwoStore(productName, u0, u1, u2)
    /\ UNCHANGED <<revision, sinFrac, numImages, generated>>

SummaryResolvesTwoStore ==
    /\ revision = "twoStore"
    /\ search.status = "awaiting"
    /\ search' = SearchResolvedTwoStore(search)
    /\ UNCHANGED <<revision, sinFrac, numImages, generated>>

SummaryRejectsTwoStore ==
    /\ revision = "twoStore"
    /\ search.status = "awaiting"
    /\ search' = SearchRejectedTwoStore(search)
    /\ UNCHANGED <<revision, sinFrac, numImages, generated>>

\* ------------------------------------------------------------------------
\* detectProductFromImage, src/lib/actions.ts lines 15-36, called through
\* useActionState with the state its previous call returned.

\* formData.get('image'): no entry, or a File of the given size
NoFile == [isNull |-> TRUE]
ImageFiles == {NoFile} \cup {[isNull |-> FALSE, size |-> n] : n \in {0, 1, 2048}}

\* what imageUploadProductSuggestion resolves with
Recognitions ==
    {[productName |-> n, suggestedProductNames |-> <<n>>, labels |-> <<"electronics">>] :
        n \in SearchNames}

\* initialState of ImageUploader
InitialState == [status |-> "idle", message |-> ""]

\* variant: only a missing entry counts as no image
ImageMissing_NullOnly(imageFile) == imageFile = NoFile

\* !imageFile || imageFile.size === 0, line 18
ImageMissing(imageFile) == imageFile = NoFile \/ imageFile.size = 0

SelectImageError == [status |-> "error", message |-> "Please select an image file."]
DetectFailedError ==
    [status |-> "error", message |-> "Failed to detect product from image. Please try again."]

\* lines 25-30
DetectSuccess(result) ==
    [status |-> "success", productName |-> result.productName,
     suggestedNames |-> result.suggestedProductNames, labels |-> result.labels]

DetectIdle ==
    [status |-> "idle", prevState |-> InitialState, state |-> InitialState,
     imageFile |-> NoFile, recognition |-> "notCalled", recognitionCalls |-> 0]

\* the call, up to the first await (lines 15-23)
DetectProductFromImage(imageFile) ==
    /\ detect.status \in {"idle", "returned"}
    /\ detect' = IF ImageMissing(imageFile)
                 THEN [status |-> "returned", prevState |-> detect.state,
                       state |-> SelectImageError,
                       imageFile |-> imageFile, recognition |-> "notCalled",
                       recognitionCalls |-> 0]
                 ELSE [status |-> "reading", prevState |-> detect.state,
                       state |-> detect.state,
                       imageFile |-> imageFile, recognition |-> "notCalled",
                       recognitionCalls |-> 0]

\* await fileToDataURI(imageFile) resolved; imageUploadProductSuggestion is called
FileReadResolves ==
    /\ detect.status = "reading"
    /\ detect' = [detect EXCEPT !.status = "recognizing", !.recognition = "pending",
                                !.recognitionCalls = @ + 1]

\* file.arrayBuffer() rejected: caught at line 31
FileReadRejects ==
    /\ detect.status = "reading"
    /\ detect' = [detect EXCEPT !.status = "returned", !.state = DetectFailedError]

\* await imageUploadProductSuggestion(...) resolved, lines 24-30
RecognitionResolves(result) ==
    /\ detect.status = "recognizing"
    /\ detect' = [detect EXCEPT !.status = "returned", !.recognition = "resolved",
                                !.state = DetectSuccess(result)]

\* await imageUploadProductSuggestion(...) rejected, lines 31-34
RecognitionRejects ==
    /\ detect.status = "recognizing"
    /\ detect' = [detect EXCEPT !.status = "returned", !.recognition = "rejected",
                                !.state = DetectFailedError]

DetectNext ==
    \/ \E imageFile \in ImageFiles : DetectProductFromImage(imageFile)
    \/ FileReadResolves
    \/ FileReadRejects
    \/ \E result \in Recognitions : RecognitionResolves(result)
    \/ RecognitionRejects

\* ------------------------------------------------------------------------
\* parseCsv and processCsv, src/lib/actions.ts lines 182-231.

\* String.prototype.split(sep) for a one-character separator
Split(s, sep) ==
    LET cuts == {0} \cup {i \in 1..Len(s) : s[i] = sep} \cup {Len(s) + 1}
        cut(k) == CHOOSE p \in cuts : Cardinality({q \in cuts : q < p}) = k - 1
    IN  [k \in 1..(Cardinality(cuts) - 1) |-> SubSeq(s, cut(k) + 1, cut(k + 1) - 1)]

\* String.prototype.trim: space, tab, line feed, carriage return
Trim(s) ==
    LET kept == {i \in 1..Len(s) : s[i] \notin {32, 9, 10, 13}}
    IN  IF kept = {} THEN <<>>
        ELSE SubSeq(s, CHOOSE i \in kept : \A j \in kept : i <= j,
                       CHOOSE i \in kept : \A j \in kept : i >= j)

\* replace(/"/g, '')
RemoveQuotes(s) == SelectSeq(s, LAMBDA c : c # 34)

\* variant: a name that is not found is taken to be the first column
IndexOf_FirstColumn(seq, x) ==
    IF \E i \in 1..Len(seq) : seq[i] = x
    THEN (CHOOSE i \in 1..Len(seq) : seq[i] = x /\ \A j \in 1..(i - 1) : seq[j] # x) - 1
    ELSE 0

\* Array.prototype.indexOf: zero-based, -1 when absent
IndexOf(seq, x) ==
    IF \E i \in 1..Len(seq) : seq[i] = x
    THEN (CHOOSE i \in 1..Len(seq) : seq[i] = x /\ \A j \in 1..(i - 1) : seq[j] # x) - 1
    ELSE -1

kw_productname == <<112, 114, 111, 100, 117, 99, 116, 110, 97, 109, 101>>

\* lines 184: the trimmed, non-empty lines of the text
Lines(text) ==
    LET raw == Split(text, 10)
    IN  SelectSeq([k \in 1..Len(raw) |-> Trim(raw[k])], LAMBDA line : line # <<>>)

\* lines 187-188: the header names
Headers(lines) ==
    LET cells == Split(toLowerCase(lines[1]), 44)
    IN  [k \in 1..Len(cells) |-> Trim(RemoveQuotes(cells[k]))]

Undefined == [isUndefined |-> TRUE]

\* lines 195-199: the cell of one line under the ProductName header
ProductCell(line, productIndex) ==
    LET columns == Split(line, 44)
    IN  IF productIndex + 1 <= Len(columns)
        THEN Trim(RemoveQuotes(columns[productIndex + 1]))
        ELSE Undefined

\* variant: without the final filter(Boolean), cells of the empty string stay
parseCsv_KeepEmpty(text) ==
    LET lines == Lines(text)
    IN  IF Len(lines) < 2 THEN [threw |-> FALSE, productNames |-> <<>>]
        ELSE LET productIndex == IndexOf(Headers(lines), kw_productname)
                 cells == [k \in 1..(Len(lines) - 1) |->
                              ProductCell(lines[k + 1], productIndex)]
             IN  IF productIndex = -1
                 THEN [threw |-> TRUE,
                       message |-> "CSV must have a 'ProductName' column."]
                 ELSE [threw |-> FALSE,
                       productNames |-> SelectSeq(cells, LAMBDA c : c # Undefined)]

\* parseCsv, lines 182-200, applied to the text of the file
parseCsv(text) ==
    LET lines == Lines(text)
    IN  IF Len(lines) < 2 THEN [threw |-> FALSE, productNames |-> <<>>]
        ELSE LET productIndex == IndexOf(Headers(lines), kw_productname)
                 cells == [k \in 1..(Len(lines) - 1) |->
                              ProductCell(lines[k + 1], productIndex)]
             IN  IF productIndex = -1
                 THEN [threw |-> TRUE,
                       message |-> "CSV must have a 'ProductName' column."]
                 ELSE [threw |-> FALSE,
                       productNames |->
                           SelectSeq(cells, LAMBDA c : c # Undefined /\ c # <<>>)]

\* ProductName,Price\nTV,100\nXbox,200\nTV,100
csv_three_rows ==
    <<80, 114, 111, 100, 117, 99, 116, 78, 97, 109, 101, 44, 80, 114, 105, 99, 101, 10, 84, 86, 44, 49, 48, 48, 10, 88, 98, 111, 120, 44, 50, 48, 48, 10, 84, 86, 44, 49, 48, 48>>
\* Price,Store\n100,Amazon\n200,eBay
csv_no_column ==
    <<80, 114, 105, 99, 101, 44, 83, 116, 111, 114, 101, 10, 49, 48, 48, 44, 65, 109, 97, 122, 111, 110, 10, 50, 48, 48, 44, 101, 66, 97, 121>>
\* Product Name,Price\nTV,100
csv_spaced_column ==
    <<80, 114, 111, 100, 117, 99, 116, 32, 78, 97, 109, 101, 44, 80, 114, 105, 99, 101, 10, 84, 86, 44, 49, 48, 48>>
\* ProductName,Price\n
csv_header_only ==
    <<80, 114, 111, 100, 117, 99, 116, 78, 97, 109, 101, 44, 80, 114, 105, 99, 101, 10>>
\* Price, "productname" \r\n100, "Camera" \r\n\r\n200\n300,\n400,Xbox
csv_quoted ==
    <<80, 114, 105, 99, 101, 44, 32, 34, 112, 114, 111, 100, 117, 99, 116, 110, 97, 109, 101, 34, 32, 13, 10, 49, 48, 48, 44, 32, 34, 67, 97, 109, 101, 114, 97, 34, 32, 13, 10, 13, 10, 50, 48, 48, 10, 51, 48, 48, 44, 10, 52, 48, 48, 44, 88, 98, 111, 120>>

\* ProductName,Price\n,100\n"",200\n  ,300
csv_empty_cells ==
    <<80, 114, 111, 100, 117, 99, 116, 78, 97, 109, 101, 44, 80, 114, 105, 99, 101, 10, 44, 49, 48, 48, 10, 34, 34, 44, 50, 48, 48, 10, 32, 32, 44, 51, 48, 48>>

\* formData.get('csv'): no entry, an empty file, or a file with a text
CsvFiles ==
    {NoFile, [isNull |-> FALSE, size |-> 0, text |-> <<>>]} \cup
    {[isNull |-> FALSE, size |-> Len(text), text |-> text] :
        text \in {csv_three_rows, csv_no_column, csv_spaced_column,
                  csv_header_only, csv_quoted, csv_empty_cells}}

CsvState(status, message, results) ==
    [status |-> status, message |-> message, results |-> results]

CsvIdle ==
    [status |-> "idle", csvFile |-> NoFile, fileText |-> "none",
     calls |-> <<>>, settled |-> <<>>,
     state |-> CsvState("idle", "", <<>>)]

\* the ComparisonData a settled searchPrices call resolved with
ComparisonData(s) ==
    [productName |-> s.productName, results |-> s.results,
     bestPrice |-> s.bestPrice, summary |-> s.summary]

\* variant: the results are collected in the order the calls completed
PromiseAll_CompletionOrder(calls, settled) ==
    [k \in 1..Len(calls) |-> ComparisonData(calls[settled[k]])]

\* Promise.all: the values in the order of the promises given, lines 216-218
PromiseAll(calls, settled) ==
    [k \in 1..Len(calls) |-> ComparisonData(calls[k])]

\* the call, up to await file.text() (lines 203-211 and 183)
ProcessCsv(csvFile) ==
    /\ csv.status \in {"idle", "returned"}
    /\ csv' = IF csvFile = NoFile \/ csvFile.size = 0
              THEN [status |-> "returned", csvFile |-> csvFile, fileText |-> "none",
                    calls |-> <<>>, settled |-> <<>>,
                    state |-> CsvState("error", "Please select a CSV file.", <<>>)]
              ELSE [status |-> "reading", csvFile |-> csvFile, fileText |-> "pending",
                    calls |-> <<>>, settled |-> <<>>, state |-> csv.state]
    /\ UNCHANGED searchVars

\* file.text() resolved: parseCsv runs, then every searchPrices call is
\* started in row order (lines 184-218)
FileTextResolves ==
    /\ csv.status = "reading"
    /\ revision = "current"
    /\ LET parsed == parseCsv(csv.csvFile.text)
       IN  csv' =
             IF parsed.threw
             THEN [csv EXCEPT !.status = "returned", !.fileText = "resolved",
                              !.state = CsvState("error", parsed.message, <<>>)]
             ELSE IF Len(parsed.productNames) = 0
             THEN [csv EXCEPT !.status = "returned", !.fileText = "resolved",
                              !.state = CsvState("error",
                                                 "No products found in the CSV file.", <<>>)]
             ELSE [csv EXCEPT !.status = "searching", !.fileText = "resolved",
                              !.calls = [k \in 1..Len(parsed.productNames) |->
                                            SearchStarted(parsed.productNames[k])]]
    /\ UNCHANGED searchVars

\* file.text() rejected: caught at line 226
FileTextRejects ==
    /\ csv.status = "reading"
    /\ csv' = [csv EXCEPT !.status = "returned", !.fileText = "rejected",
                          !.state = CsvState("error", "Failed to process CSV file.", <<>>)]
    /\ UNCHANGED searchVars

\* the summarizer of the i-th call resolved
CsvSummaryResolves(i) ==
    /\ csv.status = "searching"
    /\ i \in 1..Len(csv.calls)
    /\ csv.calls[i].status = "awaiting"
    /\ csv' = [csv EXCEPT !.calls[i] = SearchResolved(csv.calls[i]),
                          !.settled = Append(csv.settled, i)]
    /\ UNCHANGED searchVars

\* the summarizer of the i-th call rejected
CsvSummaryRejects(i) ==
    /\ csv.status = "searching"
    /\ i \in 1..Len(csv.calls)
    /\ csv.calls[i].status = "awaiting"
    /\ csv' = [csv EXCEPT !.calls[i] = SearchRejected(csv.calls[i]),
                          !.settled = Append(csv.settled, i)]
    /\ UNCHANGED searchVars

\* await Promise.all(...) settled, lines 216-229
ProcessCsvReturns ==
    /\ csv.status = "searching"
    /\ \/ \E i \in 1..Len(csv.calls) : csv.calls[i].status = "threw"
       \/ \A i \in 1..Len(csv.calls) : csv.calls[i].status = "returned"
    /\ csv' = IF \E i \in 1..Len(csv.calls) : csv.calls[i].status = "threw"
              THEN [csv EXCEPT !.status = "returned",
                               !.state = CsvState("error",
                                   (CHOOSE c \in {csv.calls[i] : i \in 1..Len(csv.calls)} :
                                        c.status = "threw").error, <<>>)]
              ELSE [csv EXCEPT !.status = "returned",
                               !.state = CsvState("success", "",
                                                  PromiseAll(csv.calls, csv.settled))]
    /\ UNCHANGED searchVars

CsvNext ==
    \/ \E csvFile \in CsvFiles : ProcessCsv(csvFile)
    \/ FileTextResolves
    \/ FileTextRejects
    \/ \E i \in 1..Len(csv.calls) : CsvSummaryResolves(i)
    \/ \E i \in 1..Len(csv.calls) : CsvSummaryRejects(i)
    \/ ProcessCsvReturns

\* ------------------------------------------------------------------------
\* The compare page: CompareData (app/(app)/compare/page.tsx lines 28-37)
\* renders on the server for the q parameter of the URL, CompareClient
\* (components/compare/CompareClient.tsx) runs in the browser with the
\* history hook.  `search` is the searchPrices call made for the browser:
\* the one of handleSearch's transition while compare.transition is
\* "pending", otherwise a request sent to the server action directly.

\* the terms a user types or a URL carries: "", "TV", "Xbox"
CompareTerms == {<<>>, <<84, 86>>, <<88, 98, 111, 120>>}
\* Math.random() draws of the two-store revision, in thousandths
CompareDraws == {0, 999}

\* searchPrices of the running revision: up to its await, and after it
StartSearch(productName, u1, u2) ==
    IF revision = "current" THEN SearchStarted(productName)
    ELSE SearchStartedTwoStore(productName, 500, u1, u2)
ResolveSearch(s) ==
    IF revision = "current" THEN SearchResolved(s) ELSE SearchResolvedTwoStore(s)
RejectSearch(s) ==
    IF revision = "current" THEN SearchRejected(s) ELSE SearchRejectedTwoStore(s)

NoNavigation == [status |-> "none", q |-> <<>>, call |-> Idle]
NoSubmit == [made |-> FALSE]

\* nothing rendered yet; the browser has requested /compare?q=...
CompareRequested(q) ==
    [mounted |-> FALSE, q |-> <<>>, initialData |-> Null, searchTerm |-> <<>>,
     data |-> Null, effectPending |-> FALSE, transition |-> "none",
     nav |-> [status |-> "requested", q |-> q, call |-> Idle],
     lastSubmit |-> NoSubmit]

\* variant: an empty term is not held back
IsEmptyTerm_Never(term) == FALSE

\* !searchTerm (CompareClient line 53), !productName (page.tsx line 30)
IsEmptyTerm(term) == term = <<>>

\* variant: the entry takes price and store from the last quote of the results
HistoryEntryOf_LastQuote(result) ==
    [productName |-> result.productName,
     bestPrice |-> result.results[Len(result.results)].price,
     store |-> result.results[Len(result.results)].store]

\* the argument of addHistoryEntry, CompareClient lines 42-46 and 63-67
HistoryEntryOf(result) ==
    [productName |-> result.productName,
     bestPrice |-> result.bestPrice.price,
     store |-> result.bestPrice.store]

\* if (x.bestPrice) addHistoryEntry({...}), lines 41-47 and 62-68
AddIfBestPrice(result) ==
    IF result # Null /\ result.bestPrice # Null
    THEN LET entry == HistoryEntryOf(result)
         IN  \E writeOk \in BOOLEAN :
                AddHistoryEntry(entry.productName,
                                [bestPrice |-> entry.bestPrice, store |-> entry.store],
                                writeOk)
    ELSE UNCHANGED histVars

\* CompareData, page.tsx line 30: the server starts rendering for nav.q
CompareData(u1, u2) ==
    /\ compare.nav.status = "requested"
    /\ compare' = [compare EXCEPT
          !.nav.status = "rendering",
          !.nav.call = IF IsEmptyTerm(compare.nav.q) THEN Idle
                       ELSE StartSearch(compare.nav.q, u1, u2)]
    /\ UNCHANGED <<histVars, searchVars>>

\* the summarizer awaited by the server render settles
PageSummaryResolves ==
    /\ compare.nav.status = "rendering"
    /\ compare.nav.call.status = "awaiting"
    /\ compare' = [compare EXCEPT !.nav.call = ResolveSearch(compare.nav.call)]
    /\ UNCHANGED <<histVars, searchVars>>

PageSummaryRejects ==
    /\ compare.nav.status = "rendering"
    /\ compare.nav.call.status = "awaiting"
    /\ compare' = [compare EXCEPT !.nav.call = RejectSearch(compare.nav.call)]
    /\ UNCHANGED <<histVars, searchVars>>

\* the render reaches the browser: CompareClient is mounted with, or given,
\* initialData and initialSearchTerm (page.tsx lines 31-36, CompareClient
\* lines 24-25) and useSearchParams shows the new q.  A render that threw
\* replaces the page by the error page: CompareClient is unmounted and the
\* state updates of a transition still running are dropped.
PageRenders ==
    /\ compare.nav.status = "rendering"
    /\ compare.nav.call.status \in {"idle", "returned", "threw"}
    /\ LET initialData == IF compare.nav.call.status = "idle" THEN Null
                          ELSE ComparisonData(compare.nav.call)
       IN  compare' =
             IF compare.nav.call.status = "threw"
             THEN [compare EXCEPT !.mounted = FALSE, !.effectPending = FALSE,
                                  !.transition = IF @ = "pending" THEN "dropped" ELSE @,
                                  !.nav = NoNavigation]
             ELSE IF compare.mounted
             THEN [compare EXCEPT !.q = compare.nav.q, !.initialData = initialData,
                                  !.effectPending = TRUE, !.nav = NoNavigation]
             ELSE [compare EXCEPT !.mounted = TRUE, !.q = compare.nav.q,
                                  !.initialData = initialData,
                                  !.data = initialData,
                                  !.searchTerm = compare.nav.q,
                                  !.effectPending = TRUE, !.nav = NoNavigation]
    /\ UNCHANGED <<histVars, searchVars>>

\* the load effect of the hook used by CompareClient (line 27)
CompareLoadEffect ==
    /\ compare.mounted
    /\ LoadEffect
    /\ UNCHANGED <<searchVars, compare>>

\* variant: the effect leaves the input alone once the user has edited it
OverwritesSearchTerm_Never(q, searchTerm) == FALSE

\* if (q && q !== searchTerm), CompareClient line 35
OverwritesSearchTerm(q, searchTerm) == q # <<>> /\ q # searchTerm

\* the effect of CompareClient, lines 32-49; it runs after the hook's load
\* effect and again whenever initialData, searchParams or searchTerm changed
CompareEffect ==
    /\ compare.mounted
    /\ compare.effectPending
    /\ phase = "ready"
    /\ LET q == compare.q
           overwrite == OverwritesSearchTerm(q, compare.searchTerm)
       IN  compare' = [compare EXCEPT
                 !.searchTerm = IF overwrite THEN q ELSE @,
                 !.data = IF compare.initialData # Null THEN compare.initialData ELSE @,
                 !.effectPending = overwrite]
    /\ AddIfBestPrice(compare.initialData)
    /\ UNCHANGED searchVars

\* the user edits the search input (onChange, setSearchTerm)
TypeSearchTerm(term) ==
    /\ compare.mounted
    /\ ~compare.effectPending
    /\ term # compare.searchTerm
    /\ compare' = [compare EXCEPT !.searchTerm = term, !.effectPending = TRUE]
    /\ UNCHANGED <<histVars, searchVars>>

\* handleSearch, lines 51-58: up to the server action's await
HandleSearch(u1, u2) ==
    /\ compare.mounted
    /\ ~compare.effectPending
    /\ compare.transition # "pending"
    /\ compare.nav.status = "none"
    /\ search.status # "awaiting"
    /\ IF IsEmptyTerm(compare.searchTerm)
       THEN /\ compare' = [compare EXCEPT
                   !.lastSubmit = [made |-> TRUE, searchTerm |-> compare.searchTerm]]
            /\ UNCHANGED search
       ELSE /\ compare' = [compare EXCEPT
                   !.lastSubmit = [made |-> TRUE, searchTerm |-> compare.searchTerm],
                   !.nav = [status |-> "requested", q |-> compare.searchTerm,
                            call |-> Idle],
                   !.transition = "pending"]
            /\ search' = StartSearch(compare.searchTerm, u1, u2)
    /\ UNCHANGED <<histVars, revision, sinFrac, numImages, generated>>

\* variant: the client-side comparison is shown but not added to the history
TransitionContinues_NoHistory ==
    /\ compare.mounted
    /\ compare.transition = "pending"
    /\ search.status \in {"returned", "threw"}
    /\ IF search.status = "returned"
       THEN compare' = [compare EXCEPT !.data = ComparisonData(search),
                                       !.transition = "applied"]
       ELSE compare' = [compare EXCEPT !.transition = "failed"]
    /\ UNCHANGED <<histVars, searchVars>>

\* the rest of the transition, lines 60-68, once searchPrices has settled
TransitionContinues ==
    /\ compare.mounted
    /\ compare.transition = "pending"
    /\ search.status \in {"returned", "threw"}
    /\ IF search.status = "returned"
       THEN /\ compare' = [compare EXCEPT !.data = ComparisonData(search),
                                          !.transition = "applied"]
            /\ AddIfBestPrice(ComparisonData(search))
       ELSE /\ compare' = [compare EXCEPT !.transition = "failed"]
            /\ UNCHANGED histVars
    /\ UNCHANGED searchVars

\* a request to the searchPrices server action that no form of the page
\* made, with a name the forms hold back
DirectSearchPrices(productName) ==
    /\ compare.transition # "pending"
    /\ search.status # "awaiting"
    /\ search' = StartSearch(productName, 500, 500)
    /\ UNCHANGED <<histVars, revision, sinFrac, numImages, generated, compare>>

\* the summarizer awaited by the call held in `search` settles
CallSummaryResolves ==
    /\ search.status = "awaiting"
    /\ search' = ResolveSearch(search)
    /\ UNCHANGED <<histVars, revision, sinFrac, numImages, generated, compare>>

CallSummaryRejects ==
    /\ search.status = "awaiting"
    /\ search' = RejectSearch(search)
    /\ UNCHANGED <<histVars, revision, sinFrac, numImages, generated, compare>>

CompareNext ==
    \/ \E u1, u2 \in CompareDraws : CompareData(u1, u2)
    \/ PageSummaryResolves
    \/ PageSummaryRejects
    \/ PageRenders
    \/ CompareLoadEffect
    \/ CompareEffect
    \/ \E term \in CompareTerms : TypeSearchTerm(term)
    \/ \E u1, u2 \in CompareDraws : HandleSearch(u1, u2)
    \/ TransitionContinues
    \/ \E name \in {term \in CompareTerms : IsEmptyTerm(term)} : DirectSearchPrices(name)
    \/ CallSummaryResolves
    \/ CallSummaryRejects

\* ------------------------------------------------------------------------
\* ProtectedApp, components/upload/ImageUploader.tsx lines 147-186.  useUser
\* comes from the Firebase provider: it may give any user with any loading
\* flag, and change them at any time.

NoUser == [isNull |-> TRUE]
Users == {NoUser, [isNull |-> FALSE, uid |-> "u1"]}
\* usePathname() of the pages under the (app) layout
Paths == {"/dashboard", "/compare", "/history", "/settings"}
NoRedirect == [isNull |-> TRUE]

\* lines 166-185: what the component returns
ProtectedOutput(isUserLoading, user) ==
    IF isUserLoading THEN "loader"
    ELSE IF user # NoUser THEN "children"
    ELSE "null"

\* variant: the effect does not wait for the loading flag
ShouldRedirect_WhileLoading(isUserLoading, user) == user = NoUser

\* lines 154-160: the effect goes on to redirect
ShouldRedirect(isUserLoading, user) == ~isUserLoading /\ user = NoUser

\* lines 161-162: new URL('/login', origin) with redirect_to set
LoginUrl(pathname) ==
    [isNull |-> FALSE, pathname |-> "/login",
     searchParams |-> [redirect_to |-> pathname]]

ProtectedUnmounted ==
    [mounted |-> FALSE,
     auth |-> [user |-> NoUser, isUserLoading |-> TRUE], location |-> "/dashboard",
     user |-> NoUser, isUserLoading |-> TRUE, pathname |-> "/dashboard",
     output |-> "none", effectPending |-> FALSE, redirect |-> NoRedirect]

\* the render of lines 147-186 with what the hooks give now
Rendered(p) ==
    [p EXCEPT !.mounted = TRUE,
              !.user = p.auth.user, !.isUserLoading = p.auth.isUserLoading,
              !.pathname = p.location,
              !.output = ProtectedOutput(p.auth.isUserLoading, p.auth.user),
              !.effectPending = TRUE]

\* a page under the (app) layout is opened: first render
ProtectedMount(pathname) ==
    /\ ~protected.mounted
    /\ protected' = Rendered([protected EXCEPT !.location = pathname,
                                               !.redirect = NoRedirect])

\* the provider gives a new user or loading flag
AuthChanges(user, isUserLoading) ==
    /\ protected.auth # [user |-> user, isUserLoading |-> isUserLoading]
    /\ protected' = [protected EXCEPT
                        !.auth = [user |-> user, isUserLoading |-> isUserLoading]]

\* navigation between the pages of the app
PathChanges(pathname) ==
    /\ protected.mounted
    /\ protected.location # pathname
    /\ protected' = [protected EXCEPT !.location = pathname]

\* a hook value changed: the component renders again (pending effects of
\* the previous render run first)
ProtectedRender ==
    /\ protected.mounted
    /\ ~protected.effectPending
    /\ \/ protected.auth.user # protected.user
       \/ protected.auth.isUserLoading # protected.isUserLoading
       \/ protected.location # protected.pathname
    /\ protected' = Rendered(protected)

\* the effect of lines 152-164, with the values of its render
ProtectedEffect ==
    /\ protected.mounted
    /\ protected.effectPending
    /\ protected' = [protected EXCEPT
          !.effectPending = FALSE,
          !.redirect = IF ShouldRedirect(protected.isUserLoading, protected.user)
                       THEN LoginUrl(protected.pathname) ELSE @]

\* router.replace has taken the browser to /login, outside the (app) layout
RedirectCompletes ==
    /\ protected.mounted
    /\ ~protected.effectPending
    /\ protected.redirect # NoRedirect
    /\ protected' = [protected EXCEPT !.mounted = FALSE, !.output = "none"]

ProtectedNext ==
    \/ \E pathname \in Paths : ProtectedMount(pathname)
    \/ \E user \in Users, isUserLoading \in BOOLEAN : AuthChanges(user, isUserLoading)
    \/ \E pathname \in Paths : PathChanges(pathname)
    \/ ProtectedRender
    \/ ProtectedEffect
    \/ RedirectCompletes

\* ------------------------------------------------------------------------
\* Two instances of useSearchHistory over the same storage key (two
\* components, or two tabs of the browser).  Each has its own useState pair
\* and runs the load effect once; localStorage and the clock are shared.

Instances == {"A", "B"}
Other(t) == IF t = "A" THEN "B" ELSE "A"
\* products the two instances add: two that an earlier session stored, one new
TabProducts == {1, 2, NumProducts}

\* useState([]) / useState(false) of one instance, lines 10-11; loadedAt and
\* persisted record when it loaded and the ids of the entries it has written
TabInit ==
    [history |-> JsArray(<<>>), isLoaded |-> FALSE, loadedAt |-> 0,
     persisted |-> {}]

TabsUnmounted == [instance |-> [t \in Instances |-> TabInit], lastAdd |-> NoCall]

\* the mount effect of instance t, lines 13-23
TabLoadEffect(t) ==
    /\ ~tabs.instance[t].isLoaded
    /\ tabs' = [tabs EXCEPT
          !.instance[t].history = LoadedHistory(localStorage),
          !.instance[t].isLoaded = TRUE,
          !.instance[t].loadedAt = clock]
    /\ UNCHANGED histVars

\* variant: the updater starts from the stored list instead of prevHistory
TabAddHistoryEntry_FromStorage(t, productName, quote, writeOk) ==
    /\ tabs.instance[t].isLoaded
    /\ numAdds < MaxAdds
    /\ clock' = clock + 1
    /\ numAdds' = numAdds + 1
    /\ LET entryWithMeta == [productName |-> productName,
                             bestPrice |-> quote.bestPrice,
                             store |-> quote.store,
                             id |-> clock + 1,
                             timestamp |-> clock + 1]
           updatedHistory == UpdatedHistory(LoadedHistory(localStorage).items,
                                            entryWithMeta)
       IN  /\ localStorage' = StoredAfter(localStorage, updatedHistory, writeOk)
           /\ tabs' = [tabs EXCEPT
                 !.instance[t].history = JsArray(updatedHistory),
                 !.instance[t].persisted = IF writeOk THEN @ \cup {clock + 1} ELSE @,
                 !.lastAdd = [made |-> TRUE, by |-> t, saved |-> writeOk]]
    /\ UNCHANGED <<history, isLoaded, phase, lastCall, prevCall>>

\* addHistoryEntry of instance t, lines 25-48: prevHistory is the instance's
\* own list
TabAddHistoryEntry(t, productName, quote, writeOk) ==
    /\ tabs.instance[t].isLoaded
    /\ numAdds < MaxAdds
    /\ clock' = clock + 1
    /\ numAdds' = numAdds + 1
    /\ LET entryWithMeta == [productName |-> productName,
                             bestPrice |-> quote.bestPrice,
                             store |-> quote.store,
                             id |-> clock + 1,
                             timestamp |-> clock + 1]
           updatedHistory == UpdatedHistory(tabs.instance[t].history.items,
                                            entryWithMeta)
       IN  /\ localStorage' = StoredAfter(localStorage, updatedHistory, writeOk)
           /\ tabs' = [tabs EXCEPT
                 !.instance[t].history = JsArray(updatedHistory),
                 !.instance[t].persisted = IF writeOk THEN @ \cup {clock + 1} ELSE @,
                 !.lastAdd = [made |-> TRUE, by |-> t, saved |-> writeOk]]
    /\ UNCHANGED <<history, isLoaded, phase, lastCall, prevCall>>

TabsNext ==
    \/ \E t \in Instances : TabLoadEffect(t)
    \/ \E t \in Instances, p \in TabProducts, q \in Quotes, ok \in BOOLEAN :
          TabAddHistoryEntry(t, p, q, ok)

\* ------------------------------------------------------------------------
\* The specifications

HistNext ==
    \/ LoadEffect
    \/ \E p \in Products, q \in Quotes, ok \in BOOLEAN : AddHistoryEntry(p, q, ok)
    \/ Remount

SearchNext ==
    \/ \E name \in SearchNames : SearchPrices(name)
    \/ SummaryResolves
    \/ SummaryRejects
    \/ \E name \in SearchNames, u0, u1, u2 \in Fractions :
          SearchPricesTwoStore(name, u0, u1, u2)
    \/ SummaryResolvesTwoStore
    \/ SummaryRejectsTwoStore

\* no search is running
SearchQuiet ==
    /\ revision = "current"
    /\ sinFrac = [k \in 0..4 |-> 0]
    /\ numImages = 1
    /\ search = Idle
    /\ generated = <<>>

\* no detection is running
DetectQuiet == detect = DetectIdle

\* no bulk upload is running
CsvQuiet == csv = CsvIdle

\* no further instance of the history hook
TabsQuiet == tabs = TabsUnmounted

\* no page under the (app) layout is open
ProtectedQuiet == protected = ProtectedUnmounted

\* the compare page is not open
CompareQuiet ==
    compare = [CompareRequested(<<>>) EXCEPT !.nav = NoNavigation]

\* no history hook is in use
HistQuiet ==
    /\ localStorage = NoItem
    /\ clock = 0
    /\ HookInit

\* the history cache of one browser session
Init == HistInit /\ SearchQuiet /\ DetectQuiet /\ CsvQuiet /\ CompareQuiet /\ ProtectedQuiet /\ TabsQuiet
Next == HistNext /\ UNCHANGED <<searchVars, detectVars, csvVars, compareVars, protectedVars, tabVars>>
Spec == Init /\ [][Next]_vars

\* the server actions
SearchInit ==
    /\ HistQuiet
    /\ DetectQuiet
    /\ CsvQuiet
    /\ CompareQuiet
    /\ ProtectedQuiet /\ TabsQuiet
    /\ search = Idle
    /\ generated = <<>>
    /\ \/ /\ revision = "current"
          /\ sinFrac \in [0..4 -> Fractions]
          /\ numImages = 1
       \/ /\ revision = "twoStore"
          /\ sinFrac = [k \in 0..4 |-> 0]
          /\ numImages \in {0, 2}
SpecSearch == SearchInit /\ [][SearchNext /\ UNCHANGED <<histVars, detectVars, csvVars, compareVars, protectedVars, tabVars>>]_vars

\* one call of generateMockPrices, lines 38-131, logged with what it returned
GenerateMockPrices(productName) ==
    /\ revision = "current"
    /\ Len(generated) < MaxCalls
    /\ generated' = Append(generated,
          [productName |-> productName,
           nameHash |-> NameHash(toLowerCase(productName)),
           basePrice |-> BasePrice(toLowerCase(productName),
                                   NameHash(toLowerCase(productName))),
           results |-> generateMockPrices(productName)])
    /\ UNCHANGED <<revision, sinFrac, numImages, search>>

\* the generator called repeatedly within one server process
GeneratorInit ==
    /\ HistQuiet
    /\ DetectQuiet
    /\ CsvQuiet
    /\ CompareQuiet
    /\ ProtectedQuiet /\ TabsQuiet
    /\ search = Idle
    /\ generated = <<>>
    /\ revision = "current"
    /\ sinFrac \in [0..4 -> {0, 999}]
    /\ numImages = 1
GeneratorNext == \E name \in SearchNames \ {<<>>} : GenerateMockPrices(name)
SpecGenerator == GeneratorInit /\ [][GeneratorNext /\ UNCHANGED <<histVars, detectVars, csvVars, compareVars, protectedVars, tabVars>>]_vars

\* the image upload form
DetectInit == HistQuiet /\ SearchQuiet /\ DetectQuiet /\ CsvQuiet /\ CompareQuiet /\ ProtectedQuiet /\ TabsQuiet
SpecDetect == DetectInit /\ [][DetectNext /\ UNCHANGED <<histVars, searchVars, csvVars, compareVars, protectedVars, tabVars>>]_vars

\* the two server actions that await a collaborator, called side by side
ActionsInit ==
    /\ HistQuiet
    /\ DetectQuiet
    /\ CsvQuiet
    /\ CompareQuiet
    /\ ProtectedQuiet /\ TabsQuiet
    /\ search = Idle
    /\ generated = <<>>
    /\ sinFrac = [k \in 0..4 |-> 0]
    /\ \/ revision = "current" /\ numImages = 1
       \/ revision = "twoStore" /\ numImages \in {0, 2}
ActionsNext ==
    \/ /\ \/ \E name \in CompareTerms : SearchPrices(name)
          \/ SummaryResolves
          \/ SummaryRejects
          \/ \E name \in CompareTerms, u1, u2 \in CompareDraws :
                SearchPricesTwoStore(name, 500, u1, u2)
          \/ SummaryResolvesTwoStore
          \/ SummaryRejectsTwoStore
       /\ UNCHANGED detectVars
    \/ DetectNext /\ UNCHANGED searchVars
SpecActions == ActionsInit /\ [][ActionsNext /\ UNCHANGED <<histVars, csvVars, compareVars, protectedVars, tabVars>>]_vars

\* the authentication gate around the pages of the app
ProtectedInit ==
    HistQuiet /\ SearchQuiet /\ DetectQuiet /\ CsvQuiet /\ CompareQuiet /\ ProtectedQuiet /\ TabsQuiet
SpecProtected ==
    ProtectedInit /\ [][ProtectedNext /\ UNCHANGED <<histVars, searchVars, detectVars, csvVars, compareVars, tabVars>>]_vars

\* two instances of the history hook over one storage key
TabsInit ==
    /\ HistInit
    /\ SearchQuiet /\ DetectQuiet /\ CsvQuiet /\ CompareQuiet /\ ProtectedQuiet /\ TabsQuiet
SpecTabs ==
    TabsInit /\ [][TabsNext /\ UNCHANGED <<searchVars, detectVars, csvVars, compareVars, protectedVars>>]_vars

\* the bulk upload
CsvInit ==
    /\ HistQuiet
    /\ DetectQuiet
    /\ CsvQuiet
    /\ CompareQuiet
    /\ ProtectedQuiet /\ TabsQuiet
    /\ search = Idle
    /\ generated = <<>>
    /\ revision = "current"
    /\ sinFrac \in {[k \in 0..4 |-> f] : f \in Fractions}
    /\ numImages = 1
SpecCsv == CsvInit /\ [][CsvNext /\ UNCHANGED <<histVars, detectVars, compareVars, protectedVars, tabVars>>]_vars

\* the compare page opened at /compare?q=..., nothing in storage
\* The list earlier comparisons may have left in storage: ten products,
\* "TV" among them.
EarlierComparisons ==
    [i \in 1..MAX_HISTORY_ITEMS |->
        [id |-> MAX_HISTORY_ITEMS + 1 - i,
         productName |-> IF i = 5 THEN <<84, 86>> ELSE <<64 + i>>,
         bestPrice |-> 49999, store |-> "Amazon",
         timestamp |-> MAX_HISTORY_ITEMS + 1 - i]]

CompareInit ==
    /\ HookInit
    /\ DetectQuiet
    /\ CsvQuiet
    /\ search = Idle
    /\ generated = <<>>
    /\ sinFrac = [k \in 0..4 |-> 0]
    /\ \/ /\ revision = "current" /\ numImages = 1
          /\ \/ localStorage = NoItem /\ clock = 0
             \/ /\ localStorage = JSON_stringify(EarlierComparisons)
                /\ clock = MAX_HISTORY_ITEMS
       \/ /\ revision = "twoStore" /\ numImages \in {0, 2}
          /\ localStorage = NoItem /\ clock = 0
    /\ ProtectedQuiet /\ TabsQuiet
    /\ \E q \in CompareTerms : compare = CompareRequested(q)
SpecCompare == CompareInit /\ [][CompareNext /\ UNCHANGED <<detectVars, csvVars, protectedVars, tabVars>>]_vars

\* ------------------------------------------------------------------------
\* Storage content that this program did not write: key absent, empty
\* string, text that is not JSON, and JSON texts that are not a list.
MalformedValues ==
    { NoItem, EmptyString, InvalidJson,
      JsonText(JsNull), JsonText(JsObject), JsonText(JsNumber) }

InitMalformed ==
    /\ localStorage \in MalformedValues
    /\ clock = 0
    /\ HookInit
    /\ SearchQuiet
    /\ DetectQuiet
    /\ CsvQuiet
    /\ CompareQuiet
    /\ ProtectedQuiet /\ TabsQuiet

NextMalformed ==
    /\ HistNext \/ RenderHistory
    /\ UNCHANGED <<searchVars, detectVars, csvVars, compareVars, protectedVars, tabVars>>

SpecMalformed == InitMalformed /\ [][NextMalformed]_vars

\* ------------------------------------------------------------------------
\* Properties of the search-history cache
Items == history.items
Names(list) == {list[i].productName : i \in 1..Len(list)}
Added == lastCall.made /\ ~lastCall.threw

\* C1: the in-memory history list never holds more than 10 entries, after
\* the load from storage and after every addHistoryEntry call.
C1_AtMostTenEntries == IsArray(history) /\ Len(Items) <= 10

\* an add of a new product to a full list has happened
C1_Witness ==
    /\ Added
    /\ Len(lastCall.before) = 10
    /\ lastCall.productName \notin Names(lastCall.before)
    /\ Len(Items) = 10

\* C2: no two entries of the list have the same productName, and after a
\* product is added the entry that remains for it is the newly added one.
C2_UniqueProductNames ==
    /\ \A i, j \in 1..Len(Items) :
          Items[i].productName = Items[j].productName => i = j
    /\ Added =>
          \A i \in 1..Len(Items) :
             Items[i].productName = lastCall.productName => Items[i].id = clock

\* a product that was already in the list has been added again
C2_Witness ==
    /\ Added
    /\ lastCall.productName \in Names(lastCall.before)
    /\ Len(Items) > 2

\* C3: the list is ordered most-recent-first: the entry just added is at the
\* front, and an entry added later than another stands before it.
C3_MostRecentFirst ==
    /\ \A i, j \in 1..Len(Items) : i < j => Items[i].id > Items[j].id
    /\ Added => Len(Items) > 0 /\ Items[1].id = clock
                /\ Items[1].productName = lastCall.productName

\* re-adding an old product moved it from the back to the front
C3_Witness ==
    /\ Added
    /\ Len(lastCall.before) > 2
    /\ lastCall.before[Len(lastCall.before)].productName = lastCall.productName
    /\ Items[1].productName = lastCall.productName

\* C4: two addHistoryEntry calls with the same productName leave exactly one
\* entry for that product, at the front, carrying the second call's
\* bestPrice and store.
C4_SecondCallWins ==
    (Added /\ prevCall.made /\ prevCall.productName = lastCall.productName) =>
        /\ Cardinality({i \in 1..Len(Items) :
                          Items[i].productName = lastCall.productName}) = 1
        /\ Items[1].productName = lastCall.productName
        /\ Items[1].bestPrice = lastCall.bestPrice
        /\ Items[1].store = lastCall.store

\* the same product was added twice with different data
C4_Witness ==
    /\ Added /\ prevCall.made
    /\ prevCall.productName = lastCall.productName
    /\ prevCall.bestPrice # lastCall.bestPrice
    /\ Len(Items) > 1

\* C5: adding an 11th distinct product to a list of 10 evicts the oldest
\* entry (the last one), keeps the other nine and leaves the length at 10.
C5_EvictsOldest ==
    (Added /\ Len(lastCall.before) = 10
           /\ lastCall.productName \notin Names(lastCall.before)) =>
        /\ Len(Items) = 10
        /\ \A i \in 1..Len(Items) : Items[i] # lastCall.before[10]
        /\ \A i \in 1..9 : Items[i + 1] = lastCall.before[i]

C5_Witness ==
    /\ Added
    /\ Len(lastCall.before) = 10
    /\ lastCall.productName \notin Names(lastCall.before)
    /\ Items[1].productName = lastCall.productName
    /\ prevCall.made

C7_MalformedLoadsAsEmpty ==
    /\ phase # "crashed"
    /\ (phase = "ready" /\ numAdds = 0) => history = JsArray(<<>>)

\* ------------------------------------------------------------------------
\* Properties of searchPrices
Returned == search.status = "returned"
Sorted(results) ==
    \A i \in 1..(Len(results) - 1) : results[i].price <= results[i + 1].price

\* C8: for every non-empty product name the results returned by searchPrices
\* (src/lib/actions.ts) are sorted ascending by price.
C8_ResultsSortedByPrice ==
    (revision = "current" /\ search.status \in {"awaiting", "returned"}) =>
        /\ search.productName # <<>>
        /\ Sorted(search.results)

\* the sort moved the third store of the catalog to the front
C8_Witness ==
    /\ revision = "current" /\ Returned
    /\ Len(search.results) = 5
    /\ search.results[1].store = "Walmart"
    /\ search.results[1].price < search.results[2].price

\* C9: bestPrice is an element of results whose price is at most every price
\* in results when results is non-empty, and it is null exactly when results
\* is empty (both revisions).
C9_BestPriceIsMinimum ==
    Returned =>
        IF search.results = <<>>
        THEN search.bestPrice = Null
        ELSE /\ search.bestPrice # Null
             /\ \E i \in 1..Len(search.results) : search.results[i] = search.bestPrice
             /\ \A j \in 1..Len(search.results) :
                   search.bestPrice.price <= search.results[j].price

\* the minimum was found behind a dearer first quote
C9_Witness ==
    /\ Returned
    /\ Len(search.results) = 2
    /\ search.results[2].price < search.results[1].price
    /\ search.bestPrice = search.results[2]

\* C10: among quotes sharing the minimum price searchPrices (src/lib/actions.ts)
\* picks the first in results order: bestPrice is results[0] and
\* bestPrice.store is results[0].store.
C10_BestPriceIsFirstResult ==
    (revision = "current" /\ Returned /\ search.results # <<>>) =>
        /\ search.bestPrice = search.results[1]
        /\ search.bestPrice.store = search.results[1].store

\* two stores tie at the minimum price
C10_Witness ==
    /\ revision = "current" /\ Returned
    /\ Len(search.results) = 5
    /\ search.results[1].price = search.results[2].price
    /\ search.results[1].store # search.results[2].store
    /\ search.bestPrice.store = search.results[1].store

\* C11: generateMockPrices (src/lib/actions.ts) returns exactly one quote per
\* store of the catalog: five quotes, every catalog store exactly once.
C11_OneQuotePerStore ==
    (revision = "current" /\ search.status \in {"awaiting", "returned"}) =>
        /\ Len(search.results) = 5
        /\ \A n \in 1..Len(stores) :
              Cardinality({i \in 1..Len(search.results) :
                              search.results[i].store = stores[n]}) = 1

\* five quotes with equal prices among them, the first catalog store last
C11_Witness ==
    /\ revision = "current" /\ search.status = "awaiting"
    /\ Len(search.results) = 5
    /\ search.results[5].store = "Amazon"
    /\ \E i \in 1..4 : search.results[i].price = search.results[i + 1].price

\* C12: when the summarizer throws, searchPrices (src/lib/actions.ts) does not
\* fail: it returns the results and the bestPrice it returns when the
\* summarizer succeeds, with a fallback summary that carries the store name
\* and the price of that bestPrice.
C12_FallbackKeepsComparison ==
    [][SummaryRejects =>
          /\ search'.status = "returned"
          /\ search'.results # <<>>
          /\ search'.results = SearchResolved(search).results
          /\ search'.bestPrice = SearchResolved(search).bestPrice
          /\ search'.summary.kind = "fallback"
          /\ search'.summary.store = search'.bestPrice.store
          /\ search'.summary.price = search'.bestPrice.price]_vars

\* a fallback summary was built while two stores tie at the minimum price
C12_Witness ==
    /\ revision = "current" /\ Returned
    /\ search.summary.kind = "fallback"
    /\ search.summarizerCalls = 1
    /\ search.results[1].price = search.results[2].price
    /\ search.summary.store = search.results[1].store

\* C13: when the generator returns no quotes searchPrices returns empty
\* results, bestPrice absent and the fixed no-prices summary, and the
\* summarizer is not called.
C13_NoQuotesNoSummarizer ==
    (search.status \in {"awaiting", "returned"} /\ search.results = <<>>) =>
        /\ Returned
        /\ search.bestPrice = Null
        /\ search.summary = [kind |-> "noPrices"]
        /\ search.summarizerCalls = 0

\* the generator was called for a non-empty name and returned nothing
C13_Witness ==
    /\ Returned
    /\ search.productName # <<>>
    /\ search.generatorCalls = 1
    /\ search.results = <<>>

\* C14: an empty product name never reaches the price generator:
\* searchPrices("") is rejected with an error before generateMockPrices or
\* the summarizer is called, and neither the compare page nor the search
\* form calls searchPrices for an empty term.
C14_EmptyNameNeverSearched ==
    /\ (search.status # "idle" /\ search.productName = <<>>) =>
          /\ search.status = "threw"
          /\ search.error = "Product name is required."
          /\ search.generatorCalls = 0
          /\ search.summarizerCalls = 0
    /\ compare.transition = "pending" => search.productName # <<>>
    /\ compare.nav.call.status # "idle" => compare.nav.call.productName # <<>>
    /\ compare.initialData # Null => compare.initialData.productName # <<>>
    /\ compare.data # Null => compare.data.productName # <<>>

\* the page was rendered for an empty q, the form was submitted with an
\* empty term, and a direct call with an empty name was rejected
C14_Witness ==
    /\ compare.mounted
    /\ compare.q = <<>>
    /\ compare.initialData = Null
    /\ compare.lastSubmit = [made |-> TRUE, searchTerm |-> <<>>]
    /\ compare.transition = "none"
    /\ compare.nav = NoNavigation
    /\ search.status = "threw"
    /\ search.productName = <<>>
    /\ search.generatorCalls = 0

C20_PricesPositive ==
    (revision = "current" /\ search.status \in {"awaiting", "returned"}) =>
        \A i \in 1..Len(search.results) : search.results[i].price > 0

\* the cheapest quote of the lowest tier at the lowest multiplier
C20_Witness ==
    /\ revision = "current" /\ Returned
    /\ search.results # <<>>
    /\ search.results[1].store = "Walmart"
    /\ \A name \in SearchNames \ {<<>>} :
          generateMockPrices(name)[1].price >= search.results[1].price

\* C16: for a CSV without a ProductName column processCsv returns an error
\* status with empty results, and searchPrices is called for none of its rows.
C16_MissingColumnRejectsBatch ==
    (/\ csv.status \in {"searching", "returned"}
     /\ csv.csvFile # NoFile
     /\ \/ Lines(csv.csvFile.text) = <<>>
        \/ \A k \in 1..Len(Headers(Lines(csv.csvFile.text))) :
              Headers(Lines(csv.csvFile.text))[k] # kw_productname) =>
        /\ csv.calls = <<>>
        /\ csv.status = "returned"
        /\ csv.state.status = "error"
        /\ csv.state.message # ""
        /\ csv.state.results = <<>>

\* a file with a header and rows but no ProductName column was rejected
C16_Witness ==
    /\ csv.status = "returned"
    /\ csv.csvFile # NoFile
    /\ csv.csvFile.text = csv_no_column
    /\ csv.state = CsvState("error", "CSV must have a 'ProductName' column.", <<>>)
    /\ csv.calls = <<>>

\* C17: on a successful bulk upload processCsv has made exactly one
\* searchPrices call per product row of the CSV and returns one
\* ComparisonResult per row, in row order, whatever the order in which the
\* calls completed.
C17_OneResultPerRowInRowOrder ==
    (csv.status = "returned" /\ csv.state.status = "success") =>
        LET rows == parseCsv(csv.csvFile.text).productNames
        IN  /\ Len(rows) > 0
            /\ Len(csv.calls) = Len(rows)
            /\ Len(csv.state.results) = Len(rows)
            /\ \A k \in 1..Len(rows) :
                  /\ csv.calls[k].productName = rows[k]
                  /\ csv.state.results[k].productName = rows[k]
                  /\ csv.state.results[k] = ComparisonData(csv.calls[k])

\* three rows whose calls completed in the reverse of row order
C17_Witness ==
    /\ csv.status = "returned" /\ csv.state.status = "success"
    /\ csv.csvFile.text = csv_three_rows
    /\ csv.settled = <<3, 2, 1>>
    /\ Len(csv.state.results) = 3
    /\ csv.state.results[1].productName = <<84, 86>>
    /\ csv.state.results[2].productName = <<88, 98, 111, 120>>
    /\ csv.state.results[3].productName = <<84, 86>>

\* the comparisons whose completion the next step of CompareClient handles:
\* initialData in the effect, the transition's result once it has returned
HandledComparisons ==
    (IF compare.mounted /\ compare.effectPending /\ compare.initialData # Null
     THEN {compare.initialData} ELSE {})
    \cup
    (IF compare.mounted /\ compare.transition = "pending" /\ search.status = "returned"
     THEN {ComparisonData(search)} ELSE {})

\* C18: a history entry is added only for a comparison that completed with
\* a non-empty result set (bestPrice present) and records that comparison's
\* productName, bestPrice.price and bestPrice.store; a comparison with empty
\* results, or one that failed, adds no entry and leaves the history unchanged.
C18_EntryOnlyForCompletedComparison ==
    [][(/\ phase = "ready"
        /\ <<history, localStorage, numAdds>>' # <<history, localStorage, numAdds>>) =>
           \E c \in HandledComparisons :
              /\ c.results # <<>>
              /\ c.bestPrice # Null
              /\ numAdds' = numAdds + 1
              /\ IsArray(history')
              /\ Len(history'.items) >= 1
              /\ history'.items[1].productName = c.productName
              /\ history'.items[1].bestPrice = c.bestPrice.price
              /\ history'.items[1].store = c.bestPrice.store]_vars

\* the transition's comparison failed and the history still holds only the
\* entry of the comparison the page was rendered with
C18_Witness ==
    /\ compare.mounted
    /\ compare.transition = "failed"
    /\ search.status = "threw"
    /\ compare.initialData # Null
    /\ numAdds = 1
    /\ IsArray(history)
    /\ Len(history.items) = 1
    /\ history.items[1].productName = compare.initialData.productName
    /\ history.items[1].bestPrice = compare.initialData.bestPrice.price
    /\ history.items[1].store = compare.initialData.bestPrice.store

\* C19: detectProductFromImage never throws: a missing or zero-size image
\* gives an error status without the recognition collaborator being called,
\* a failure of the recognition collaborator gives an error status with a
\* message, and only a successful recognition gives the success status with
\* a productName.
C19_DetectNeverThrows ==
    /\ detect.status \in {"idle", "reading", "recognizing", "returned"}
    /\ detect.status = "returned" =>
          /\ (detect.imageFile = NoFile \/ detect.imageFile.size = 0) =>
                /\ detect.state.status = "error"
                /\ detect.state.message # ""
                /\ detect.recognition = "notCalled"
          /\ detect.recognition = "rejected" =>
                /\ detect.state.status = "error"
                /\ detect.state.message # ""
          /\ detect.state.status \in {"error", "success"}
          /\ detect.state.status = "success" <=> detect.recognition = "resolved"
          /\ detect.state.status = "success" =>
                detect.state.productName \in {r.productName : r \in Recognitions}

\* the recognition failed in a call that follows a successful one
C19_Witness ==
    /\ detect.status = "returned"
    /\ detect.recognition = "rejected"
    /\ detect.prevState.status = "success"
    /\ detect.state.status = "error"

\* C21: no retries: one searchPrices invocation calls the summarizer at most
\* once and one detectProductFromImage invocation calls the recognition
\* collaborator at most once; after a failure the call is not repeated.
C21_NoRetries ==
    /\ search.status # "idle" => search.summarizerCalls <= 1
    /\ detect.recognitionCalls <= 1
    /\ (search.status = "returned" /\ search.summary.kind = "fallback") =>
          search.summarizerCalls = 1
    /\ (detect.status = "returned" /\ detect.recognition = "rejected") =>
          detect.recognitionCalls = 1

\* both collaborators failed and both invocations have ended
C21_Witness ==
    /\ revision = "current"
    /\ search.status = "returned"
    /\ search.summary.kind = "fallback"
    /\ search.summarizerCalls = 1
    /\ detect.status = "returned"
    /\ detect.recognition = "rejected"
    /\ detect.recognitionCalls = 1

\* the pricing keywords of lines 56-66
Keywords ==
    {kw_iphone, kw_galaxy, kw_pixel, kw_smartphone, kw_macbook, kw_laptop,
     kw_notebook, kw_headphone, kw_earbuds, kw_airpods, kw_watch, kw_smartwatch,
     kw_camera, kw_gaming_console, kw_playstation, kw_xbox}
MatchesNoKeyword(productName) ==
    \A kw \in Keywords : ~includes(toLowerCase(productName), kw)

\* C22: for a product name that matches no pricing keyword the base price is
\* an integer in [10000, 89999], also when the shift-based hash of the name
\* is negative or has left the 32-bit range.
C22_DefaultBasePriceInRange ==
    \A i \in 1..Len(generated) :
        MatchesNoKeyword(generated[i].productName) =>
            generated[i].basePrice \in 10000..89999

\* default-tier names were priced whose hashes are negative and above 2^31
C22_Witness ==
    /\ Len(generated) >= 2
    /\ MatchesNoKeyword(generated[1].productName)
    /\ generated[1].nameHash.hi < 0
    /\ MatchesNoKeyword(generated[2].productName)
    /\ generated[2].nameHash.hi >= 32768

\* C23: ProtectedApp renders its children only when the loading flag is
\* false and a user is present; while loading it renders the loader and
\* starts no redirect; when loading is finished and there is no user it
\* renders nothing and redirects to /login with redirect_to set to the
\* current path.
C23_ProtectedAppGate ==
    /\ [](protected.mounted =>
            /\ protected.output = "children" <=>
                  (~protected.isUserLoading /\ protected.user # NoUser)
            /\ protected.isUserLoading => protected.output = "loader"
            /\ (~protected.isUserLoading /\ protected.user = NoUser) =>
                  /\ protected.output = "null"
                  /\ ~protected.effectPending =>
                        /\ protected.redirect # NoRedirect
                        /\ protected.redirect.pathname = "/login"
                        /\ protected.redirect.searchParams.redirect_to =
                               protected.pathname)
    /\ [][(protected.mounted /\ protected.isUserLoading) =>
             protected'.redirect = protected.redirect]_vars

\* after a navigation inside the app the session ended: nothing is rendered
\* and the redirect carries the path of the page that was open
C23_Witness ==
    /\ protected.mounted
    /\ ~protected.isUserLoading
    /\ protected.user = NoUser
    /\ protected.output = "null"
    /\ ~protected.effectPending
    /\ protected.pathname = "/compare"
    /\ protected.redirect = LoginUrl("/compare")

\* C24: addHistoryEntry changes nothing in the entries that survive it:
\* every entry whose productName differs from the added one and that is not
\* truncated keeps its id, bestPrice, store and timestamp, and the surviving
\* entries keep their relative order behind the new entry.
C24_SurvivorsUnchanged ==
    Added =>
        LET others == SelectSeq(lastCall.before,
                                LAMBDA e : e.productName # lastCall.productName)
        IN  /\ Len(Items) = Min({MAX_HISTORY_ITEMS, 1 + Len(others)})
            /\ \A i \in 2..Len(Items) : Items[i] = others[i - 1]

\* a product from the middle of the list was added again: entries on both
\* sides of its old place survive
C24_Witness ==
    /\ Added
    /\ Len(lastCall.before) > 3
    /\ lastCall.before[2].productName = lastCall.productName
    /\ Len(Items) = Len(lastCall.before)
    /\ Items[2] = lastCall.before[1]
    /\ Items[3] = lastCall.before[3]

\* C25: when the write to local storage fails inside addHistoryEntry, the
\* failure is swallowed: no exception reaches the caller, the in-memory
\* list is still updated with the new entry (de-duplicated and capped), and
\* the stored value keeps its previous content.
C25_WriteFailureSwallowed ==
    [][(numAdds' = numAdds + 1 /\ ~lastCall'.saved) =>
          /\ ~lastCall'.threw
          /\ phase' = "ready"
          /\ localStorage' = localStorage
          /\ IsArray(history')
          /\ history'.items # history.items
          /\ history'.items[1].productName = lastCall'.productName
          /\ history'.items[1].bestPrice = lastCall'.bestPrice
          /\ history'.items[1].store = lastCall'.store
          /\ Len(history'.items) <= MAX_HISTORY_ITEMS
          /\ \A i, j \in 1..Len(history'.items) :
                history'.items[i].productName = history'.items[j].productName => i = j
      ]_vars

\* the write failed while a full list got a product it already held: memory
\* and storage now differ
C25_Witness ==
    /\ Added
    /\ ~lastCall.saved
    /\ Len(lastCall.before) = MAX_HISTORY_ITEMS
    /\ lastCall.productName \in Names(lastCall.before)
    /\ Items[1].productName = lastCall.productName
    /\ localStorage # NoItem
    /\ LoadedHistory(localStorage) = JsArray(lastCall.before)

\* C26: the history cache's isLoaded flag starts false, becomes true after
\* the single load attempt whether the load succeeds, fails or finds
\* nothing, and never returns to false; addHistoryEntry does not change
\* isLoaded.  (A remount constructs a new cache instance, whose flag starts
\* false again.)
C26_IsLoadedMonotone ==
    /\ [](phase = "mounted" <=> ~isLoaded)
    /\ [][phase = "mounted" => (phase' = "ready" /\ isLoaded')]_vars
    /\ [][(isLoaded /\ phase' # "mounted") => isLoaded']_vars
    /\ [][numAdds' # numAdds => isLoaded' = isLoaded]_vars

\* the load attempt failed on a value that is not JSON, and the flag is set
C26_Witness ==
    /\ phase = "ready"
    /\ isLoaded
    /\ localStorage = InvalidJson
    /\ ParseThrows(localStorage)
    /\ history = JsArray(<<>>)

\* C27: in CompareClient, whenever the URL carries a non-empty q parameter,
\* the effect overwrites any edited searchTerm with q, so that once the
\* effect has run searchTerm equals q and handleSearch can only submit q;
\* each such run of the effect with a non-null initialData that has a
\* bestPrice also calls addHistoryEntry for initialData again.
C27_EffectOverwritesSearchTerm ==
    /\ []((compare.mounted /\ compare.q # <<>> /\ ~compare.effectPending) =>
             compare.searchTerm = compare.q)
    /\ [][(/\ compare.mounted /\ compare.effectPending   \* a run of the effect
            /\ compare' # compare
            /\ compare'.nav = compare.nav
            /\ compare'.transition = compare.transition
            /\ compare.q # <<>>) =>
             /\ compare'.searchTerm = compare.q
             /\ (compare.initialData # Null /\ compare.initialData.bestPrice # Null) =>
                   /\ numAdds' = numAdds + 1
                   /\ lastCall'.made
                   /\ lastCall'.productName = compare.initialData.productName
                   /\ lastCall'.bestPrice = compare.initialData.bestPrice.price
                   /\ lastCall'.store = compare.initialData.bestPrice.store]_vars
    /\ [][(compare.mounted /\ compare.q # <<>> /\ compare.nav.status = "none"
               /\ compare'.nav.status = "requested") =>
             compare'.nav.q = compare.q]_vars

\* the page was rendered for q, the user edited the input, and the effect
\* put q back and added the entry of initialData a second time
C27_Witness ==
    /\ compare.mounted
    /\ compare.q # <<>>
    /\ compare.searchTerm = compare.q
    /\ compare.effectPending
    /\ compare.nav.status = "none"
    /\ compare.lastSubmit = NoSubmit
    /\ compare.transition = "none"
    /\ lastCall.made /\ prevCall.made
    /\ lastCall.productName = compare.q
    /\ prevCall.productName = compare.q
    /\ numAdds = 2

\* C28: one submitted search in CompareClient triggers two comparisons of
\* the same term (the server-rendered initialData after router.push and the
\* client-side searchPrices call), each adding to the history; in either
\* order of completion the history ends with exactly one entry for that
\* product, at index 0, and no other product's entry is removed unless the
\* cap of 10 requires it.  (searchPrices of lib/actions.ts.)
C28_OneSearchTwoAdds ==
    (/\ revision = "current"
     /\ compare.mounted
     /\ compare.lastSubmit.made
     /\ compare.lastSubmit.searchTerm # <<>>
     /\ compare.transition = "applied"
     /\ compare.nav.status = "none"
     /\ ~compare.effectPending) =>
        LET term == compare.lastSubmit.searchTerm
            others == SelectSeq(prevCall.before, LAMBDA e : e.productName # term)
        IN  /\ compare.q = term
            /\ compare.initialData # Null
            /\ compare.initialData.productName = term
            /\ compare.data # Null
            /\ compare.data.productName = term
            /\ numAdds >= 2
            /\ lastCall.made /\ lastCall.productName = term
            /\ prevCall.made /\ prevCall.productName = term
            /\ IsArray(history)
            /\ Items[1].productName = term
            /\ Cardinality({i \in 1..Len(Items) : Items[i].productName = term}) = 1
            /\ Len(Items) = Min({MAX_HISTORY_ITEMS, 1 + Len(others)})
            /\ \A i \in 2..Len(Items) : Items[i] = others[i - 1]

\* a new product was searched while the list was full: both comparisons
\* added it, and only the oldest entry had to go
C28_Witness ==
    /\ revision = "current"
    /\ compare.mounted
    /\ compare.lastSubmit.made
    /\ compare.transition = "applied"
    /\ compare.nav.status = "none"
    /\ ~compare.effectPending
    /\ numAdds = 2
    /\ Len(prevCall.before) = MAX_HISTORY_ITEMS
    /\ compare.lastSubmit.searchTerm \notin Names(prevCall.before)
    /\ Items[1].productName = compare.lastSubmit.searchTerm
    /\ Len(Items) = MAX_HISTORY_ITEMS
    /\ \A i \in 1..9 : Items[i + 1] = prevCall.before[i]

StoredItems == LoadedHistory(localStorage).items
\* ids of the entries the other instance wrote after instance t had loaded
PersistedSinceLoad(t) ==
    {id \in tabs.instance[Other(t)].persisted : id > tabs.instance[t].loadedAt}

NonEmptyProductCells(text) ==
    LET lines == Lines(text)
        headers == Headers(lines)
        column == Min({k \in 1..Len(headers) : headers[k] = kw_productname})
        cells == [k \in 1..(Len(lines) - 1) |-> ProductCell(lines[k + 1], column - 1)]
    IN  SelectSeq(cells, LAMBDA c : c # Undefined /\ c # <<>>)
HasProductNameColumn(text) ==
    /\ Lines(text) # <<>>
    /\ \E k \in 1..Len(Headers(Lines(text))) : Headers(Lines(text))[k] = kw_productname

\* C30: processCsv never calls searchPrices with an empty product name
\* (empty cells are filtered out), and when the CSV has a ProductName column
\* and at least one non-empty product cell the batch ends with status
\* success and one result per non-empty cell even if the summarization
\* collaborator fails for some or all rows; a CSV that yields no product
\* names ends with status error and empty results.
C30_BatchSkipsEmptyCells ==
    /\ \A k \in 1..Len(csv.calls) : csv.calls[k].productName # <<>>
    /\ (csv.status = "returned" /\ csv.fileText = "resolved") =>
          LET text == csv.csvFile.text
          IN  IF HasProductNameColumn(text) /\ NonEmptyProductCells(text) # <<>>
              THEN LET cells == NonEmptyProductCells(text)
                   IN  /\ csv.state.status = "success"
                       /\ Len(csv.calls) = Len(cells)
                       /\ Len(csv.state.results) = Len(cells)
                       /\ \A k \in 1..Len(cells) :
                             /\ csv.state.results[k].productName = cells[k]
                             /\ csv.state.results[k].results # <<>>
                             /\ csv.state.results[k].bestPrice # Null
              ELSE /\ csv.state.status = "error"
                   /\ csv.state.results = <<>>
                   /\ csv.calls = <<>>

\* the file with quoted, absent and empty cells gave two results, Camera
\* and Xbox, although the summarizer failed for both
C30_Witness ==
    /\ csv.status = "returned"
    /\ csv.fileText = "resolved"
    /\ csv.csvFile.text = csv_quoted
    /\ csv.state.status = "success"
    /\ Len(csv.state.results) = 2
    /\ csv.state.results[1].productName = <<67, 97, 109, 101, 114, 97>>
    /\ csv.state.results[2].productName = <<88, 98, 111, 120>>
    /\ \A k \in 1..2 : csv.calls[k].summary.kind = "fallback"

====
